---- MODULE Spec2Model ----
(***************************************************************************)
(* The fund-universe pipeline of 02_raw_data_walkthrough.ipynb: CRSP       *)
(* monthly fund data and S12 holdings are linked to the fund-level id      *)
(* wficn, aggregated per (wficn, year), joined, and filtered (a, b, c).    *)
(*                                                                         *)
(* A dataframe is a sequence of records (rows in order).  A missing value  *)
(* (NaN) is the empty sequence and a present value v is <<v>>, for the     *)
(* columns that can be missing.  Dates are month indexes (0 = January of   *)
(* year 0).  Returns are in percent.  Floating-point quotients are exact   *)
(* fractions [n, d] in lowest terms; d = 0 stands for inf or NaN.          *)
(***************************************************************************)
EXTENDS Integers, Sequences, FiniteSets

VARIABLES pc, file_crsp, file_s12, file_mflink1, file_mflink2,
          df_crsp, df_s12, df_mflink1, df_mflink2,
          df_ret, df_tna, df_crsp_clean, df_eq, df_combo

vars == <<pc, file_crsp, file_s12, file_mflink1, file_mflink2,
          df_crsp, df_s12, df_mflink1, df_mflink2,
          df_ret, df_tna, df_crsp_clean, df_eq, df_combo>>

files == <<file_crsp, file_s12, file_mflink1, file_mflink2>>

-----------------------------------------------------------------------------
(* Values *)

NaN == <<>>

IsNull(x) == x = NaN

NotNull(x) == x # NaN

\* fillna(v)
FillNa(x, v) == IF IsNull(x) THEN <<v>> ELSE x

MonthsPerYear == 12

\* a year-end month that is off by one
MonthBeforeDecember == 12 - 1

\* query("month==12")
December == 12

\* caldt.dt.year / fdate.dt.year
YearOf(date) == date \div MonthsPerYear

\* caldt.dt.month
MonthOf(date) == (date % MonthsPerYear) + 1

Abs(x) == IF x < 0 THEN -x ELSE x

RECURSIVE GCD(_, _)
GCD(a, b) == IF b = 0 THEN a ELSE GCD(b, a % b)

\* the quotient n / d of two numbers (d >= 0), in lowest terms
Frac(n, d) ==
    IF d = 0 THEN [n |-> IF n > 0 THEN 1 ELSE IF n < 0 THEN -1 ELSE 0, d |-> 0]
    ELSE LET g == GCD(Abs(n), d) IN [n |-> n \div g, d |-> d \div g]

FracOfInt(k) == [n |-> k, d |-> 1]

FracMul(a, b) == Frac(a.n * b.n, a.d * b.d)

FracAdd(a, b) == Frac(a.n * b.d + b.n * a.d, a.d * b.d)

\* comparisons of finite fractions; any comparison with inf/NaN on the left
\* is made only through Between, which rejects d = 0
FracLt(a, b) == a.n * b.d < b.n * a.d

FracLeq(a, b) == a.n * b.d <= b.n * a.d

-----------------------------------------------------------------------------
(* Sequences as dataframes *)

Range(s) == {s[i] : i \in DOMAIN s}

RECURSIVE SumSeq(_)
SumSeq(s) == IF s = <<>> THEN 0 ELSE Head(s) + SumSeq(Tail(s))

\* lexicographic order of two integer tuples of one length
LexLt(a, b) ==
    \E k \in DOMAIN a : a[k] < b[k] /\ \A j \in 1..(k - 1) : a[j] = b[j]

\* sort key of a column that can be missing: NaN sorts last
NullableKey(x) == IF IsNull(x) THEN <<1, 0>> ELSE <<0, x[1]>>

\* sort_values: the rows of s in the order of their keys (key[i] the key of
\* s[i]), rows of equal keys in their order in s
SortByKey(s, key) ==
    LET n == Len(s)
        Before(j, i) == LexLt(key[j], key[i]) \/ (key[j] = key[i] /\ j < i)
        Rank(i) == Cardinality({j \in 1..n : Before(j, i)}) + 1
    IN  [p \in 1..n |-> s[CHOOSE i \in 1..n : Rank(i) = p]]

\* the group keys of a groupby, in ascending order (sort=True)
SortedKeys(K) ==
    [p \in 1..Cardinality(K) |->
        CHOOSE k \in K : Cardinality({j \in K : LexLt(j, k)}) = p - 1]

\* s1 followed by s2 followed by ...: the concatenation of a sequence of sequences
RECURSIVE Flatten(_)
Flatten(ss) == IF ss = <<>> THEN <<>> ELSE Head(ss) \o Flatten(Tail(ss))

-----------------------------------------------------------------------------
(* CRSP: wficn, annual return, year-end TNA *)

\* a left merge that keeps an unmatched share class as a fund of its own
MergeMflink1Left(crsp, link) ==
    LET Matches(r) == SelectSeq(link, LAMBDA l : l.crsp_fundno = r.crsp_fundno)
        Joined(r) == IF Matches(r) = <<>>
                     THEN <<[crsp_fundno |-> r.crsp_fundno, caldt |-> r.caldt,
                             mret |-> r.mret, mtna |-> r.mtna,
                             wficn |-> <<r.crsp_fundno>>]>>
                     ELSE [k \in 1..Len(Matches(r)) |->
                             [crsp_fundno |-> r.crsp_fundno, caldt |-> r.caldt,
                              mret |-> r.mret, mtna |-> r.mtna,
                              wficn |-> Matches(r)[k].wficn]]
    IN  Flatten([i \in 1..Len(crsp) |-> Joined(crsp[i])])

\* df_crsp.merge(df_mflink1, how="inner", on="crsp_fundno")
MergeMflink1(crsp, link) ==
    LET Matches(r) == SelectSeq(link, LAMBDA l : l.crsp_fundno = r.crsp_fundno)
        Joined(r) == [k \in 1..Len(Matches(r)) |->
                        [crsp_fundno |-> r.crsp_fundno, caldt |-> r.caldt,
                         mret |-> r.mret, mtna |-> r.mtna,
                         wficn |-> Matches(r)[k].wficn]]
    IN  Flatten([i \in 1..Len(crsp) |-> Joined(crsp[i])])

\* sort, year and month of caldt, rows with a wficn only, mret.fillna(0)
NormaliseCrsp(crsp) ==
    LET sorted == SortByKey(crsp,
                      [i \in 1..Len(crsp) |->
                          <<crsp[i].caldt>> \o NullableKey(crsp[i].wficn)])
        linked == SelectSeq(sorted, LAMBDA r : NotNull(r.wficn))
    IN  [i \in 1..Len(linked) |->
            [crsp_fundno |-> linked[i].crsp_fundno, caldt |-> linked[i].caldt,
             year |-> YearOf(linked[i].caldt), month |-> MonthOf(linked[i].caldt),
             wficn |-> linked[i].wficn[1],
             mret |-> FillNa(linked[i].mret, 0)[1], mtna |-> linked[i].mtna]]

\* groupby(["wficn", "year", "month"])["mret"].mean().reset_index(), mult;
\* the mean of returns in percent, as a fraction of 1
MonthlyMean(crsp) ==
    LET keys == SortedKeys({<<r.wficn, r.year, r.month>> : r \in Range(crsp)})
        Grp(k) == SelectSeq(crsp, LAMBDA r : <<r.wficn, r.year, r.month>> = k)
        Mean(k) == Frac(SumSeq([i \in 1..Len(Grp(k)) |-> Grp(k)[i].mret]),
                        100 * Len(Grp(k)))
    IN  [p \in 1..Len(keys) |->
            [wficn |-> keys[p][1], year |-> keys[p][2], month |-> keys[p][3],
             mret |-> Mean(keys[p]),
             mult |-> FracAdd(FracOfInt(1), Mean(keys[p]))]]

RECURSIVE ProdMult(_)
ProdMult(s) == IF s = <<>> THEN FracOfInt(1) ELSE FracMul(Head(s).mult, ProdMult(Tail(s)))

\* the cumulative product grouped by wficn alone: it runs on across the years
CumRetAcrossYears(ret) ==
    LET n == Len(ret)
        idx == SortByKey([i \in 1..n |-> i], [i \in 1..n |-> <<ret[i].year, ret[i].month>>])
        Pos(i) == CHOOSE p \in 1..n : idx[p] = i
        UpTo(i) == SelectSeq(SubSeq(idx, 1, Pos(i)), LAMBDA j : ret[j].wficn = ret[i].wficn)
    IN  [i \in 1..n |-> ProdMult([k \in 1..Len(UpTo(i)) |-> ret[UpTo(i)[k]]])]

\* sort_values(["year", "month"]).groupby(["wficn", "year"])["mult"].cumprod(),
\* assigned back to the rows of ret by index
CumRet(ret) ==
    LET n == Len(ret)
        idx == SortByKey([i \in 1..n |-> i], [i \in 1..n |-> <<ret[i].year, ret[i].month>>])
        Pos(i) == CHOOSE p \in 1..n : idx[p] = i
        UpTo(i) == SelectSeq(SubSeq(idx, 1, Pos(i)),
                       LAMBDA j : ret[j].wficn = ret[i].wficn /\ ret[j].year = ret[i].year)
    IN  [i \in 1..n |-> ProdMult([k \in 1..Len(UpTo(i)) |-> ret[UpTo(i)[k]]])]

\* df_ret: monthly mean, cumulative product, December only, yret
ComputeRet(crsp) ==
    LET ret == MonthlyMean(crsp)
        cum == CumRet(ret)
        all == [i \in 1..Len(ret) |->
                  [wficn |-> ret[i].wficn, year |-> ret[i].year, month |-> ret[i].month,
                   mret |-> ret[i].mret, mult |-> ret[i].mult, cumret |-> cum[i],
                   yret |-> FracAdd(cum[i], FracOfInt(-1))]]
    IN  SelectSeq(all, LAMBDA r : r.month = December)

\* sum() of a column that can be missing: NaN is skipped, an all-NaN group sums to 0
SumSkipNa(s) == SumSeq([i \in 1..Len(s) |-> FillNa(s[i], 0)[1]])

\* the year-end TNA taken from the last share class of the group, not summed
ComputeTnaLast(crsp) ==
    LET dec == SelectSeq(crsp, LAMBDA r : r.month = December)
        keys == SortedKeys({<<r.wficn, r.year>> : r \in Range(dec)})
        Grp(k) == SelectSeq(dec, LAMBDA r : <<r.wficn, r.year>> = k)
    IN  [p \in 1..Len(keys) |->
            [wficn |-> keys[p][1], year |-> keys[p][2],
             crsp_tna |-> FillNa(Grp(keys[p])[Len(Grp(keys[p]))].mtna, 0)[1]]]

\* df_tna: December rows, groupby(["wficn", "year"])["mtna"].sum() as crsp_tna
ComputeTna(crsp) ==
    LET dec == SelectSeq(crsp, LAMBDA r : r.month = December)
        keys == SortedKeys({<<r.wficn, r.year>> : r \in Range(dec)})
        Grp(k) == SelectSeq(dec, LAMBDA r : <<r.wficn, r.year>> = k)
    IN  [p \in 1..Len(keys) |->
            [wficn |-> keys[p][1], year |-> keys[p][2],
             crsp_tna |-> SumSkipNa([i \in 1..Len(Grp(keys[p])) |-> Grp(keys[p])[i].mtna])]]

\* pd.merge(df_tna, df_ret)[["wficn", "year", "crsp_tna", "yret"]]
MergeTnaRet(tna, ret) ==
    LET Matches(t) == SelectSeq(ret, LAMBDA r : r.wficn = t.wficn /\ r.year = t.year)
        Joined(t) == [k \in 1..Len(Matches(t)) |->
                        [wficn |-> t.wficn, year |-> t.year, crsp_tna |-> t.crsp_tna,
                         yret |-> Matches(t)[k].yret]]
    IN  Flatten([i \in 1..Len(tna) |-> Joined(tna[i])])

-----------------------------------------------------------------------------
(* S12: wficn by nearest date, equity holdings per (wficn, year) *)

\* year of fdate, sort_values(["fdate", "fundno"])
SortS12(s12) ==
    LET withYear == [i \in 1..Len(s12) |->
                       [fundno |-> s12[i].fundno, fdate |-> s12[i].fdate,
                        year |-> YearOf(s12[i].fdate),
                        assets |-> s12[i].assets, useq_tna_k |-> s12[i].useq_tna_k]]
    IN  SortByKey(withYear, [i \in 1..Len(s12) |-> <<s12[i].fdate, s12[i].fundno>>])

\* df_mflink2.sort_values(["fdate", "fundno"])
SortMflink2(link) ==
    SortByKey(link, [i \in 1..Len(link) |-> <<link[i].fdate, link[i].fundno>>])

\* merge_asof with its default direction, "backward": the last row at or
\* before the date; 0 when the fundno has none
AsofBackward(fundno, fdate, link) ==
    LET back == {j \in 1..Len(link) : link[j].fundno = fundno /\ link[j].fdate <= fdate}
    IN  IF back # {} THEN CHOOSE j \in back : \A k \in back : k <= j ELSE 0

\* the row of link (sorted by fdate) that merge_asof(by="fundno", on="fdate",
\* direction="nearest") joins to a left row: the last row at or before the
\* date and the first row at or after it are compared, the earlier one wins a
\* tie; 0 when the fundno has no row
AsofNearest(fundno, fdate, link) ==
    LET back == {j \in 1..Len(link) : link[j].fundno = fundno /\ link[j].fdate <= fdate}
        fwd == {j \in 1..Len(link) : link[j].fundno = fundno /\ link[j].fdate >= fdate}
        bj == CHOOSE j \in back : \A k \in back : k <= j
        fj == CHOOSE j \in fwd : \A k \in fwd : j <= k
    IN  IF back # {} /\ fwd # {}
        THEN IF fdate - link[bj].fdate <= link[fj].fdate - fdate THEN bj ELSE fj
        ELSE IF back # {} THEN bj
        ELSE IF fwd # {} THEN fj
        ELSE 0

\* pd.merge_asof(df_s12, df_mflink2[["fdate", "fundno", "wficn"]], ...), then
\* the rows with a wficn only
MergeMflink2(s12, link) ==
    LET Wficn(r) == LET j == AsofNearest(r.fundno, r.fdate, link)
                    IN  IF j = 0 THEN NaN ELSE link[j].wficn
        merged == [i \in 1..Len(s12) |->
                     [fundno |-> s12[i].fundno, fdate |-> s12[i].fdate,
                      year |-> s12[i].year, assets |-> s12[i].assets,
                      useq_tna_k |-> s12[i].useq_tna_k, wficn |-> Wficn(s12[i])]]
    IN  SelectSeq(merged, LAMBDA r : NotNull(r.wficn))

\* df_s12["assets"].fillna(0)
FillAssets(s12) ==
    [i \in 1..Len(s12) |->
        [fundno |-> s12[i].fundno, fdate |-> s12[i].fdate, year |-> s12[i].year,
         assets |-> FillNa(s12[i].assets, 0), useq_tna_k |-> s12[i].useq_tna_k,
         wficn |-> s12[i].wficn]]

\* groupby(["year", "fdate", "wficn", "assets"])["useq_tna_k"].sum().reset_index()
SumHoldings(s12) ==
    LET Key(r) == <<r.year, r.fdate, r.wficn[1], r.assets[1]>>
        keys == SortedKeys({Key(r) : r \in Range(s12)})
        Grp(k) == SelectSeq(s12, LAMBDA r : Key(r) = k)
    IN  [p \in 1..Len(keys) |->
            [year |-> keys[p][1], fdate |-> keys[p][2], wficn |-> keys[p][3],
             assets |-> <<keys[p][4]>>,
             useq_tna_k |-> <<SumSkipNa([i \in 1..Len(Grp(keys[p])) |->
                                           Grp(keys[p])[i].useq_tna_k])>>]]

\* np.where(df_eq["assets"] == 0, np.nan, df_eq["assets"])
RecodeAssets(eq) ==
    [i \in 1..Len(eq) |->
        [year |-> eq[i].year, fdate |-> eq[i].fdate, wficn |-> eq[i].wficn,
         assets |-> IF eq[i].assets = <<0>> THEN NaN ELSE eq[i].assets,
         useq_tna_k |-> eq[i].useq_tna_k]]

\* GroupBy.last() of one column: the last value of the group that is not
\* missing, NaN when the group has none
RECURSIVE Last(_)
Last(col) ==
    IF col = <<>> THEN NaN
    ELSE IF NotNull(col[Len(col)]) THEN col[Len(col)]
    ELSE Last(SubSeq(col, 1, Len(col) - 1))

\* groupby(["wficn", "year"])[["assets", "useq_tna_k"]].last().reset_index()
LastPerYear(eq) ==
    LET keys == SortedKeys({<<r.wficn, r.year>> : r \in Range(eq)})
        Grp(k) == SelectSeq(eq, LAMBDA r : <<r.wficn, r.year>> = k)
    IN  [p \in 1..Len(keys) |->
            [wficn |-> keys[p][1], year |-> keys[p][2],
             assets |-> Last([i \in 1..Len(Grp(keys[p])) |-> Grp(keys[p])[i].assets]),
             useq_tna_k |-> Last([i \in 1..Len(Grp(keys[p])) |->
                                    Grp(keys[p])[i].useq_tna_k])]]

-----------------------------------------------------------------------------
(* The joined table and the universe filters *)

\* pd.merge(df_crsp_clean, df_eq, on=["wficn", "year"], how="inner").sort_values("year");
\* the columns of the later cells are still to be computed
Combine(clean, eq) ==
    LET Matches(c) == SelectSeq(eq, LAMBDA e : e.wficn = c.wficn /\ e.year = c.year)
        Joined(c) == [k \in 1..Len(Matches(c)) |->
                        [wficn |-> c.wficn, year |-> c.year, crsp_tna |-> c.crsp_tna,
                         yret |-> c.yret, assets |-> Matches(c)[k].assets,
                         useq_tna_k |-> Matches(c)[k].useq_tna_k,
                         tna_ratio |-> NaN, eq_ratio_1 |-> NaN, eq_ratio_2 |-> NaN]]
        merged == Flatten([i \in 1..Len(clean) |-> Joined(clean[i])])
    IN  SortByKey(merged, [i \in 1..Len(merged) |-> <<merged[i].year>>])

\* the minimum year-end TNA, in millions: query("crsp_tna > 1")
MinTna == 1

\* filter a against the smallest fund of the table instead of the fixed minimum
FilterAboveSmallest(combo) ==
    SelectSeq(combo, LAMBDA r : \E x \in Range(combo) : r.crsp_tna > x.crsp_tna)

\* filter a
FilterA(combo) == SelectSeq(combo, LAMBDA r : r.crsp_tna > MinTna)

\* 1e6: crsp_tna is in millions
TnaUnit == 1000000

\* 1e4: assets is in ten thousands
AssetsUnit == 10000

\* 1e3: useq_tna_k is in thousands
EquityUnit == 1000

\* the ratio without its default: NaN when the assets are missing
TnaRatioNoDefault(r) ==
    IF IsNull(r.assets) THEN Frac(0, 0)
    ELSE Frac(r.crsp_tna * TnaUnit, r.assets[1] * AssetsUnit)

\* np.where(assets.isnull(), 1, crsp_tna * 1e6 / assets / 1e4)
TnaRatio(r) ==
    IF IsNull(r.assets) THEN FracOfInt(1)
    ELSE Frac(r.crsp_tna * TnaUnit, r.assets[1] * AssetsUnit)

\* 0.5 and 2: query("tna_ratio > 0.5 and tna_ratio < 2")
TnaRatioLow == [n |-> 1, d |-> 2]

TnaRatioHigh == [n |-> 2, d |-> 1]

\* the bounds 0.5 and 2 included
TnaRatioOkInclusive(x) == x.d # 0 /\ FracLeq(TnaRatioLow, x) /\ FracLeq(x, TnaRatioHigh)

\* both comparisons are false of inf and NaN
TnaRatioOk(x) == x.d # 0 /\ FracLt(TnaRatioLow, x) /\ FracLt(x, TnaRatioHigh)

\* filter b: the tna_ratio column, then the query on it
FilterB(combo) ==
    LET withRatio == [i \in 1..Len(combo) |->
                        [combo[i] EXCEPT !.tna_ratio = <<TnaRatio(combo[i])>>]]
    IN  SelectSeq(withRatio, LAMBDA r : TnaRatioOk(r.tna_ratio[1]))

\* useq_tna_k * 1e3 / (crsp_tna * 1e6)
EqRatio1(r) ==
    IF IsNull(r.useq_tna_k) THEN Frac(0, 0)
    ELSE Frac(r.useq_tna_k[1] * EquityUnit, r.crsp_tna * TnaUnit)

\* np.where(assets.isnull(), 1, useq_tna_k * 1e3 / (assets * 1e4))
EqRatio2(r) ==
    IF IsNull(r.assets) THEN FracOfInt(1)
    ELSE IF IsNull(r.useq_tna_k) THEN Frac(0, 0)
    ELSE Frac(r.useq_tna_k[1] * EquityUnit, r.assets[1] * AssetsUnit)

\* the eq_ratio_1 and eq_ratio_2 columns
EqRatios(combo) ==
    [i \in 1..Len(combo) |->
        [combo[i] EXCEPT !.eq_ratio_1 = <<EqRatio1(combo[i])>>,
                         !.eq_ratio_2 = <<EqRatio2(combo[i])>>]]

\* 0.8 and 1.05: between(0.8, 1.05)
EqRatioLow == [n |-> 4, d |-> 5]

EqRatioHigh == [n |-> 21, d |-> 20]

\* Series.between(0.8, 1.05): both ends included, false of inf and NaN
Between(x) == x.d # 0 /\ FracLeq(EqRatioLow, x) /\ FracLeq(x, EqRatioHigh)

\* filter c asking for both ratios in the range
FilterCBoth(combo) ==
    SelectSeq(combo, LAMBDA r : Between(r.eq_ratio_1[1]) /\ Between(r.eq_ratio_2[1]))

\* filter c
FilterC(combo) ==
    SelectSeq(combo, LAMBDA r : Between(r.eq_ratio_1[1]) \/ Between(r.eq_ratio_2[1]))

-----------------------------------------------------------------------------
(* The notebook: one action per code cell, in the order of the cells *)

Empty ==
    /\ pc = "load"
    /\ df_crsp = <<>> /\ df_s12 = <<>> /\ df_mflink1 = <<>> /\ df_mflink2 = <<>>
    /\ df_ret = <<>> /\ df_tna = <<>> /\ df_crsp_clean = <<>>
    /\ df_eq = <<>> /\ df_combo = <<>>

\* load_CRSP_combined_file(), load_s12_file(), load_mflink1(), load_mflink2()
Load ==
    /\ pc = "load"
    /\ df_crsp' = file_crsp
    /\ df_s12' = file_s12
    /\ df_mflink1' = file_mflink1
    /\ df_mflink2' = file_mflink2
    /\ pc' = "merge_mflink1"
    /\ UNCHANGED <<files, df_ret, df_tna, df_crsp_clean, df_eq, df_combo>>

CellMergeMflink1 ==
    /\ pc = "merge_mflink1"
    /\ df_crsp' = MergeMflink1(df_crsp, df_mflink1)
    /\ pc' = "normalise_crsp"
    /\ UNCHANGED <<files, df_s12, df_mflink1, df_mflink2, df_ret, df_tna,
                   df_crsp_clean, df_eq, df_combo>>

CellNormaliseCrsp ==
    /\ pc = "normalise_crsp"
    /\ df_crsp' = NormaliseCrsp(df_crsp)
    /\ pc' = "df_ret"
    /\ UNCHANGED <<files, df_s12, df_mflink1, df_mflink2, df_ret, df_tna,
                   df_crsp_clean, df_eq, df_combo>>

CellRet ==
    /\ pc = "df_ret"
    /\ df_ret' = ComputeRet(df_crsp)
    /\ pc' = "df_tna"
    /\ UNCHANGED <<files, df_crsp, df_s12, df_mflink1, df_mflink2, df_tna,
                   df_crsp_clean, df_eq, df_combo>>

CellTna ==
    /\ pc = "df_tna"
    /\ df_tna' = ComputeTna(df_crsp)
    /\ df_crsp_clean' = MergeTnaRet(df_tna', df_ret)
    /\ pc' = "merge_mflink2"
    /\ UNCHANGED <<files, df_crsp, df_s12, df_mflink1, df_mflink2, df_ret,
                   df_eq, df_combo>>

CellMergeMflink2 ==
    /\ pc = "merge_mflink2"
    /\ df_mflink2' = SortMflink2(df_mflink2)
    /\ df_s12' = MergeMflink2(SortS12(df_s12), df_mflink2')
    /\ pc' = "sum_holdings"
    /\ UNCHANGED <<files, df_crsp, df_mflink1, df_ret, df_tna, df_crsp_clean,
                   df_eq, df_combo>>

CellSumHoldings ==
    /\ pc = "sum_holdings"
    /\ df_s12' = FillAssets(df_s12)
    /\ df_eq' = SumHoldings(df_s12')
    /\ pc' = "recode_assets"
    /\ UNCHANGED <<files, df_crsp, df_mflink1, df_mflink2, df_ret, df_tna,
                   df_crsp_clean, df_combo>>

CellRecodeAssets ==
    /\ pc = "recode_assets"
    /\ df_eq' = RecodeAssets(df_eq)
    /\ pc' = "last_per_year"
    /\ UNCHANGED <<files, df_crsp, df_s12, df_mflink1, df_mflink2, df_ret, df_tna,
                   df_crsp_clean, df_combo>>

CellLastPerYear ==
    /\ pc = "last_per_year"
    /\ df_eq' = LastPerYear(df_eq)
    /\ pc' = "df_combo"
    /\ UNCHANGED <<files, df_crsp, df_s12, df_mflink1, df_mflink2, df_ret, df_tna,
                   df_crsp_clean, df_combo>>

CellCombine ==
    /\ pc = "df_combo"
    /\ df_combo' = Combine(df_crsp_clean, df_eq)
    /\ pc' = "filter_a"
    /\ UNCHANGED <<files, df_crsp, df_s12, df_mflink1, df_mflink2, df_ret, df_tna,
                   df_crsp_clean, df_eq>>

CellFilterA ==
    /\ pc = "filter_a"
    /\ df_combo' = FilterA(df_combo)
    /\ pc' = "filter_b"
    /\ UNCHANGED <<files, df_crsp, df_s12, df_mflink1, df_mflink2, df_ret, df_tna,
                   df_crsp_clean, df_eq>>

CellFilterB ==
    /\ pc = "filter_b"
    /\ df_combo' = FilterB(df_combo)
    /\ pc' = "eq_ratios"
    /\ UNCHANGED <<files, df_crsp, df_s12, df_mflink1, df_mflink2, df_ret, df_tna,
                   df_crsp_clean, df_eq>>

CellEqRatios ==
    /\ pc = "eq_ratios"
    /\ df_combo' = EqRatios(df_combo)
    /\ pc' = "filter_c"
    /\ UNCHANGED <<files, df_crsp, df_s12, df_mflink1, df_mflink2, df_ret, df_tna,
                   df_crsp_clean, df_eq>>

CellFilterC ==
    /\ pc = "filter_c"
    /\ df_combo' = FilterC(df_combo)
    /\ pc' = "done"
    /\ UNCHANGED <<files, df_crsp, df_s12, df_mflink1, df_mflink2, df_ret, df_tna,
                   df_crsp_clean, df_eq>>

Next ==
    \/ Load
    \/ CellMergeMflink1
    \/ CellNormaliseCrsp
    \/ CellRet
    \/ CellTna
    \/ CellMergeMflink2
    \/ CellSumHoldings
    \/ CellRecodeAssets
    \/ CellLastPerYear
    \/ CellCombine
    \/ CellFilterA
    \/ CellFilterB
    \/ CellEqRatios
    \/ CellFilterC

-----------------------------------------------------------------------------
(* Inputs: the four files of data/pull, drawn from bounded sets of tables *)

CrspRow(f, d, r, t) == [crsp_fundno |-> f, caldt |-> d, mret |-> r, mtna |-> t]

Mflink1Row(f, w) == [crsp_fundno |-> f, wficn |-> w]

S12Row(f, d, a, u) == [fundno |-> f, fdate |-> d, assets |-> a, useq_tna_k |-> u]

Mflink2Row(d, f, w) == [fdate |-> d, fundno |-> f, wficn |-> w]

\* the tables of at most max rows taken from the rows of dom (a sequence),
\* one table per multiset of rows: the rows in the order of dom
Tables(dom, max) ==
    LET idx == UNION {[1..n -> 1..Len(dom)] : n \in 0..max}
        sorted == {f \in idx : \A i \in 1..(Len(f) - 1) : f[i] <= f[i + 1]}
    IN  {[i \in 1..Len(f) |-> dom[f[i]]] : f \in sorted}

\* the tables of at most max rows taken from the rows of dom, in every order
OrderedTables(dom, max) ==
    LET idx == UNION {[1..n -> 1..Len(dom)] : n \in 0..max}
    IN  {[i \in 1..Len(f) |-> dom[f[i]]] : f \in idx}

\* a set as a sequence, in some fixed order
RECURSIVE SeqOf(_)
SeqOf(S) == IF S = {} THEN <<>> ELSE LET x == CHOOSE y \in S : TRUE IN <<x>> \o SeqOf(S \ {x})

\* the monthly panel holds one row per share class and month
MonthlyPanel(t) ==
    \A i, j \in 1..Len(t) :
        t[i].crsp_fundno = t[j].crsp_fundno /\ t[i].caldt = t[j].caldt => i = j

MaxCrspRows == 3

MaxS12Rows == 3

MaxMflink2Rows == 2

\* share classes 1 and 2; November and December of year 0, December of year 1
CrspRows ==
    SeqOf({CrspRow(f, d, v[1], v[2]) :
             f \in {1, 2}, d \in {10, 11, 23},
             v \in {<<<<10>>, <<2>>>>, <<<<-20>>, <<1>>>>, <<NaN, NaN>>}})

Mflink1Tables ==
    { <<Mflink1Row(1, <<1>>), Mflink1Row(2, <<1>>)>>,
      <<Mflink1Row(1, <<1>>), Mflink1Row(2, <<2>>)>>,
      <<Mflink1Row(1, <<1>>)>>,
      <<Mflink1Row(1, <<1>>), Mflink1Row(1, <<1>>), Mflink1Row(2, <<1>>)>>,
      <<Mflink1Row(1, <<1>>), Mflink1Row(1, <<2>>), Mflink1Row(2, <<2>>)>>,
      <<Mflink1Row(1, <<1>>), Mflink1Row(2, NaN)>> }

\* reports of March and September of year 0 and March of year 1
S12Rows ==
    SeqOf({S12Row(f, d, v[1], v[2]) :
             f \in {1, 2}, d \in {2, 8, 14},
             v \in {<<<<200>>, <<2000>>>>, <<NaN, <<1600>>>>, <<<<0>>, NaN>>}})

Mflink2Tables ==
    { <<Mflink2Row(5, 1, <<1>>), Mflink2Row(5, 2, <<1>>)>>,
      <<Mflink2Row(5, 1, <<1>>), Mflink2Row(5, 2, <<2>>)>>,
      <<Mflink2Row(5, 1, <<1>>)>> }

\* link rows of June and December of year 0
Mflink2Rows ==
    SeqOf({Mflink2Row(d, f, w) : d \in {5, 11}, f \in {1, 2}, w \in {<<1>>, <<2>>, NaN}})

S12Tables ==
    {<<S12Row(1, d, <<200>>, <<2000>>)>> : d \in {2, 5, 6, 8, 10, 14}}
      \cup {<<S12Row(1, 8, <<200>>, <<2000>>), S12Row(2, 8, NaN, <<1600>>)>>}

CrspSample ==
    <<CrspRow(1, 10, <<10>>, <<1>>), CrspRow(1, 11, <<-20>>, <<2>>),
      CrspRow(2, 11, <<10>>, <<2>>), CrspRow(1, 23, <<10>>, <<2>>)>>

Mflink1Sample == <<Mflink1Row(1, <<1>>), Mflink1Row(2, <<2>>)>>

S12Sample ==
    <<S12Row(1, 2, <<100>>, <<1000>>), S12Row(1, 8, <<200>>, <<2000>>),
      S12Row(2, 8, NaN, <<1600>>), S12Row(3, 8, <<200>>, <<2000>>)>>

Mflink2Sample == <<Mflink2Row(5, 1, <<1>>), Mflink2Row(5, 2, <<2>>)>>

\* the CRSP files vary
InitCrsp ==
    /\ Empty
    /\ file_crsp \in {t \in Tables(CrspRows, MaxCrspRows) : MonthlyPanel(t)}
    /\ file_mflink1 \in Mflink1Tables
    /\ file_s12 = S12Sample
    /\ file_mflink2 = Mflink2Sample

\* the holdings file varies
InitHoldings ==
    /\ Empty
    /\ file_crsp = CrspSample
    /\ file_mflink1 = Mflink1Sample
    /\ file_s12 \in Tables(S12Rows, MaxS12Rows)
    /\ file_mflink2 \in Mflink2Tables

\* the time-varying link table varies
InitMflink2 ==
    /\ Empty
    /\ file_crsp = CrspSample
    /\ file_mflink1 = Mflink1Sample
    /\ file_s12 \in S12Tables
    /\ file_mflink2 \in OrderedTables(Mflink2Rows, MaxMflink2Rows)

\* December TNA of a share class, reported assets and equity holdings of a report
TnaValues == {NaN, <<1>>, <<2>>}

AssetsValues == {NaN, <<100>>, <<200>>, <<250>>, <<400>>}

EquityValues == {<<1500>>, <<1600>>, <<2000>>, <<2100>>, <<2200>>}

\* the files of two funds of one share class and one report each
FilterFiles(t1, a1, u1, t2, a2, u2) ==
    [crsp |-> <<CrspRow(1, 11, <<10>>, t1), CrspRow(2, 11, <<-20>>, t2)>>,
     mflink1 |-> Mflink1Sample,
     s12 |-> <<S12Row(1, 8, a1, u1), S12Row(2, 8, a2, u2)>>,
     mflink2 |-> Mflink2Sample]

FilterInputs ==
    {FilterFiles(t1, a1, u1, t2, a2, u2) :
        t1 \in TnaValues, a1 \in AssetsValues, u1 \in EquityValues,
        t2 \in TnaValues, a2 \in AssetsValues, u2 \in EquityValues}

\* the values that the filters compare vary
InitFilter ==
    /\ Empty
    /\ \E f \in FilterInputs :
          /\ file_crsp = f.crsp
          /\ file_mflink1 = f.mflink1
          /\ file_s12 = f.s12
          /\ file_mflink2 = f.mflink2

Init == InitCrsp \/ InitHoldings \/ InitMflink2 \/ InitFilter

Spec == Init /\ [][Next]_vars

SpecCrsp == InitCrsp /\ [][Next]_vars

SpecHoldings == InitHoldings /\ [][Next]_vars

SpecMflink2 == InitMflink2 /\ [][Next]_vars

SpecFilter == InitFilter /\ [][Next]_vars

-----------------------------------------------------------------------------
(* The cells composed: the tables of a run as functions of the files *)

\* df_crsp_clean of a run
CrspClean(crsp, mflink1) ==
    LET linked == NormaliseCrsp(MergeMflink1(crsp, mflink1))
    IN  MergeTnaRet(ComputeTna(linked), ComputeRet(linked))

\* df_eq of a run
EqTable(s12, mflink2) ==
    LastPerYear(RecodeAssets(SumHoldings(FillAssets(
        MergeMflink2(SortS12(s12), SortMflink2(mflink2))))))

\* df_combo before the filters
Joined(crsp, mflink1, s12, mflink2) ==
    Combine(CrspClean(crsp, mflink1), EqTable(s12, mflink2))

\* filter b, and filter c with its two columns, as steps from table to table
StepA(combo) == FilterA(combo)

StepB(combo) == FilterB(combo)

StepC(combo) == FilterC(EqRatios(combo))

\* df_combo after the last cell
Final(combo) == StepC(StepB(StepA(combo)))

\* the cells that have run
Past(cell) ==
    LET order == <<"load", "merge_mflink1", "normalise_crsp", "df_ret", "df_tna",
                   "merge_mflink2", "sum_holdings", "recode_assets", "last_per_year",
                   "df_combo", "filter_a", "filter_b", "eq_ratios", "filter_c", "done">>
        At(c) == CHOOSE i \in 1..Len(order) : order[i] = c
    IN  At(pc) > At(cell)

-----------------------------------------------------------------------------
(* Sums and products over the values of a function *)

RECURSIVE SumFn(_)
SumFn(f) ==
    IF DOMAIN f = {} THEN 0
    ELSE LET x == CHOOSE y \in DOMAIN f : TRUE
         IN  f[x] + SumFn([y \in DOMAIN f \ {x} |-> f[y]])

RECURSIVE ProdFn(_)
ProdFn(f) ==
    IF DOMAIN f = {} THEN FracOfInt(1)
    ELSE LET x == CHOOSE y \in DOMAIN f : TRUE
         IN  FracMul(f[x], ProdFn([y \in DOMAIN f \ {x} |-> f[y]]))

\* a TNA value in a sum: a missing one adds nothing
TnaOr0(x) == IF IsNull(x) THEN 0 ELSE x[1]

-----------------------------------------------------------------------------
(* C2: annual return *)

\* the months of year y in which fund w has a matched share-class record
C2_Months(w, y) == {r.month : r \in {x \in Range(df_crsp) : x.wficn = w /\ x.year = y}}

\* the simple mean of the returns of the records of fund w in month m of year y
C2_MonthlyMean(w, y, m) ==
    LET recs == {i \in 1..Len(df_crsp) :
                    df_crsp[i].wficn = w /\ df_crsp[i].year = y /\ df_crsp[i].month = m}
    IN  Frac(SumFn([i \in recs |-> df_crsp[i].mret]), 100 * Cardinality(recs))

C2_Compounded(w, y) ==
    FracAdd(ProdFn([m \in C2_Months(w, y) |->
                       FracAdd(FracOfInt(1), C2_MonthlyMean(w, y, m))]),
            FracOfInt(-1))

\* C2: for every (wficn, year) of the annual-return output (df_ret, and
\* df_crsp_clean which takes yret from it), yret is the product over all the
\* months of the year in which the fund has a matched share-class record of
\* (1 + the simple mean of the month's returns), minus 1.
C2_AnnualReturn ==
    /\ Past("df_ret") => \A r \in Range(df_ret) : r.yret = C2_Compounded(r.wficn, r.year)
    /\ Past("df_tna") =>
          \A r \in Range(df_crsp_clean) : r.yret = C2_Compounded(r.wficn, r.year)

\* a fund-year of two months, one of them with two share classes of different
\* returns, in the second year of a fund that has a first year
C2_Witness ==
    /\ pc = "done"
    /\ \E r \in Range(df_crsp_clean) :
          /\ Cardinality(C2_Months(r.wficn, r.year)) >= 2
          /\ \E a, b \in Range(df_crsp) :
                /\ a.wficn = r.wficn /\ b.wficn = r.wficn
                /\ a.year = r.year /\ b.year = r.year
                /\ a.month = b.month /\ a.mret # b.mret
          /\ r.yret # FracOfInt(0)

-----------------------------------------------------------------------------
(* C3: year-end TNA *)

\* the December records of year y of the share classes that the static link
\* table links to fund w
C3_DecemberRecords(w, y) ==
    {i \in 1..Len(file_crsp) :
        /\ YearOf(file_crsp[i].caldt) = y
        /\ MonthOf(file_crsp[i].caldt) = 12
        /\ \E l \in Range(file_mflink1) :
              l.crsp_fundno = file_crsp[i].crsp_fundno /\ l.wficn = <<w>>}

\* C3 as stated: crsp_tna is the sum of the December TNA of the fund's share
\* classes, each share class counted exactly once, for any static link table.
C3_EachShareClassOnce ==
    Past("df_tna") =>
        \A r \in Range(df_tna) :
            r.crsp_tna = SumFn([i \in C3_DecemberRecords(r.wficn, r.year) |->
                                   TnaOr0(file_crsp[i].mtna)])

\* the pairs of a December record of year y and a row of the static link
\* table that links its share class to fund w
C3_LinkedDecemberRecords(w, y) ==
    {p \in (1..Len(file_crsp)) \X (1..Len(file_mflink1)) :
        /\ YearOf(file_crsp[p[1]].caldt) = y
        /\ MonthOf(file_crsp[p[1]].caldt) = 12
        /\ file_mflink1[p[2]].crsp_fundno = file_crsp[p[1]].crsp_fundno
        /\ file_mflink1[p[2]].wficn = <<w>>}

\* C3 as amended: crsp_tna is the sum of the December TNA of the fund's share
\* classes, a share class counted once for every row of the static link table
\* that links it to the fund (a missing TNA adds nothing); a fund-year is in
\* the year-end TNA output exactly when it has such a record.
C3_OncePerLinkRow ==
    Past("df_tna") =>
        /\ \A r \in Range(df_tna) :
              /\ C3_LinkedDecemberRecords(r.wficn, r.year) # {}
              /\ r.crsp_tna = SumFn([p \in C3_LinkedDecemberRecords(r.wficn, r.year) |->
                                       TnaOr0(file_crsp[p[1]].mtna)])
        /\ \A w \in {1, 2}, y \in {0, 1} :
              C3_LinkedDecemberRecords(w, y) # {}
                  => \E r \in Range(df_tna) : r.wficn = w /\ r.year = y

\* two share classes of one fund with December TNA 2 and 1 give 3
C3_Witness ==
    /\ pc = "done"
    /\ \E r \in Range(df_tna) :
          /\ r.crsp_tna = 3
          /\ Cardinality(C3_LinkedDecemberRecords(r.wficn, r.year)) = 2
          /\ Cardinality(C3_DecemberRecords(r.wficn, r.year)) = 2

-----------------------------------------------------------------------------
(* C8: no December fallback *)

\* the December records of fund w in year y
C8_December(w, y) ==
    {i \in 1..Len(df_crsp) :
        df_crsp[i].wficn = w /\ df_crsp[i].year = y /\ df_crsp[i].month = 12}

\* C8 as stated: a fund-year with no December record, or with December
\* records that all miss their TNA, has no record in df_crsp_clean.
C8_NoRecordWithoutDecemberTna ==
    Past("df_tna") =>
        \A r \in Range(df_crsp_clean) :
            \E i \in C8_December(r.wficn, r.year) : NotNull(df_crsp[i].mtna)

\* C8 as amended: a fund-year with no December record at all has no record in
\* df_crsp_clean, and no other month's value is substituted: every record has
\* the sum of the December TNA alone; a fund-year whose December records all
\* miss their TNA does have a record, with crsp_tna = 0.
C8_NoRecordWithoutDecember ==
    Past("df_tna") =>
        /\ \A r \in Range(df_crsp_clean) :
              /\ C8_December(r.wficn, r.year) # {}
              /\ r.crsp_tna = SumFn([i \in C8_December(r.wficn, r.year) |->
                                       TnaOr0(df_crsp[i].mtna)])
        /\ \A x \in Range(df_crsp) :
              (/\ C8_December(x.wficn, x.year) # {}
               /\ \A i \in C8_December(x.wficn, x.year) : IsNull(df_crsp[i].mtna))
                  => \E r \in Range(df_crsp_clean) :
                        r.wficn = x.wficn /\ r.year = x.year /\ r.crsp_tna = 0

\* a fund-year with a November TNA and no December record is absent, and a
\* fund-year whose only December TNA is missing is present with 0
C8_Witness ==
    /\ pc = "done"
    /\ \E x \in Range(df_crsp) :
          /\ x.month = 11 /\ NotNull(x.mtna)
          /\ C8_December(x.wficn, x.year) = {}
          /\ \A r \in Range(df_crsp_clean) : ~(r.wficn = x.wficn /\ r.year = x.year)
    /\ \E r \in Range(df_crsp_clean) :
          /\ r.crsp_tna = 0
          /\ \A i \in C8_December(r.wficn, r.year) : IsNull(df_crsp[i].mtna)

-----------------------------------------------------------------------------
(* C1: holdings aggregation *)

\* the holdings rows of fund w in year y (df_s12 after the link and the fill)
C1_Rows(w, y) == {i \in 1..Len(df_s12) : df_s12[i].wficn = <<w>> /\ df_s12[i].year = y}

\* the rows of the report (fdate, wficn, assets) that row i belongs to
C1_Report(i) ==
    {j \in 1..Len(df_s12) :
        /\ df_s12[j].wficn = df_s12[i].wficn
        /\ df_s12[j].fdate = df_s12[i].fdate
        /\ df_s12[j].assets = df_s12[i].assets}

\* C1 as stated: for every (wficn, year) of the aggregated holdings table, the
\* assets and the equity-holdings value are those of a report with the latest
\* report date of the year (assets missing when that report's are missing or
\* zero), never those of an earlier report.
C1_LastReportOfYear ==
    Past("last_per_year") =>
        \A r \in Range(df_eq) :
            \E i \in C1_Rows(r.wficn, r.year) :
                /\ \A j \in C1_Rows(r.wficn, r.year) : df_s12[j].fdate <= df_s12[i].fdate
                /\ r.assets = IF df_s12[i].assets \in {NaN, <<0>>} THEN NaN
                              ELSE df_s12[i].assets
                /\ r.useq_tna_k = <<SumFn([j \in C1_Report(i) |->
                                             TnaOr0(df_s12[j].useq_tna_k)])>>

-----------------------------------------------------------------------------
(* C7: nearest-date identifier resolution *)

C7_LinkRows(fundno) == {l \in Range(file_mflink2) : l.fundno = fundno}

\* the link rows of the report id at the minimum distance from the date
C7_Nearest(fundno, fdate) ==
    {l \in C7_LinkRows(fundno) :
        \A k \in C7_LinkRows(fundno) : Abs(l.fdate - fdate) <= Abs(k.fdate - fdate)}

\* a holdings record of the file is kept by the link step
C7_Kept(x) == \E r \in Range(df_s12) : r.fundno = x.fundno /\ r.fdate = x.fdate

\* C7: every holdings record that is kept has the wficn of a link row of its
\* report id at the minimum distance from its report date, however far; a
\* record is discarded only when its report id has no link row or a nearest
\* link row has no wficn, and it is kept otherwise.
C7_NearestDate ==
    Past("merge_mflink2") =>
        /\ \A r \in Range(df_s12) :
              /\ NotNull(r.wficn)
              /\ \E l \in C7_Nearest(r.fundno, r.fdate) : l.wficn = r.wficn
        /\ \A x \in Range(file_s12) :
              ~C7_Kept(x) =>
                  \/ C7_LinkRows(x.fundno) = {}
                  \/ \E l \in C7_Nearest(x.fundno, x.fdate) : IsNull(l.wficn)

\* a record kept with the wficn of a later link row that is strictly nearer
\* than an earlier one with another wficn, and a record kept across the year end
C7_Witness ==
    /\ pc = "done"
    /\ \E r \in Range(df_s12) :
          \E b, f \in C7_LinkRows(r.fundno) :
              /\ b.fdate < r.fdate /\ r.fdate < f.fdate
              /\ f.fdate - r.fdate < r.fdate - b.fdate
              /\ NotNull(b.wficn) /\ b.wficn # f.wficn /\ r.wficn = f.wficn

-----------------------------------------------------------------------------
(* C4, C5, C10: the ratios of the records that the filters keep *)

One == [n |-> 1, d |-> 1]

\* C4: after filter b every record has tna_ratio exactly 1 when its assets
\* are missing and (crsp_tna * 1e6) / (assets * 1e4) otherwise, and
\* 0.5 < tna_ratio < 2, up to the final table.
C4_TnaRatio ==
    Past("filter_b") =>
        \A r \in Range(df_combo) :
            /\ NotNull(r.tna_ratio)
            /\ LET x == r.tna_ratio[1]
               IN  /\ IsNull(r.assets) => x = One
                   /\ NotNull(r.assets) =>
                         /\ x.d > 0
                         /\ x.n * (r.assets[1] * 10000) = x.d * (r.crsp_tna * 1000000)
                   /\ 2 * x.n > x.d
                   /\ x.n < 2 * x.d

\* a final table with a computed ratio below 1 and a defaulted one
C4_Witness ==
    /\ pc = "done"
    /\ \E r \in Range(df_combo) : NotNull(r.assets) /\ r.tna_ratio = <<[n |-> 4, d |-> 5]>>
    /\ \E r \in Range(df_combo) : IsNull(r.assets) /\ r.tna_ratio = <<One>>

\* 0.8 <= num / den <= 1.05, for den > 0
C5_InRange(num, den) == 5 * num >= 4 * den /\ 20 * num <= 21 * den

\* either equity ratio of a record is in [0.8, 1.05]
C5_Either(r) ==
    \/ C5_InRange(r.useq_tna_k[1] * 1000, r.crsp_tna * 1000000)
    \/ IsNull(r.assets)
    \/ NotNull(r.assets) /\ C5_InRange(r.useq_tna_k[1] * 1000, r.assets[1] * 10000)

\* the columns hold useq_tna_k * 1e3 / (crsp_tna * 1e6) and
\* useq_tna_k * 1e3 / (assets * 1e4), the second one 1 when the assets are missing
C5_Columns(r) ==
    /\ NotNull(r.eq_ratio_1) /\ NotNull(r.eq_ratio_2)
    /\ r.eq_ratio_1[1].n * (r.crsp_tna * 1000000)
          = r.eq_ratio_1[1].d * (r.useq_tna_k[1] * 1000)
    /\ IsNull(r.assets) => r.eq_ratio_2[1] = One
    /\ NotNull(r.assets) =>
          r.eq_ratio_2[1].n * (r.assets[1] * 10000)
              = r.eq_ratio_2[1].d * (r.useq_tna_k[1] * 1000)

\* filter c removes no record that has either ratio in the range
C5_KeepsEither ==
    pc = "filter_c" =>
        \A r \in Range(df_combo) : C5_Either(r) => r \in Range(df_combo')

\* C5: after filter c every record has eq_ratio_1 or eq_ratio_2 in
\* [0.8, 1.05], bounds included, and filter c removes no record that has.
C5_EquityRatios ==
    /\ [](Past("filter_c") => \A r \in Range(df_combo) : C5_Columns(r) /\ C5_Either(r))
    /\ [][C5_KeepsEither]_vars

\* records kept by one ratio alone, at the bounds: eq_ratio_1 = 0.8 with
\* eq_ratio_2 below, and eq_ratio_2 in the range with eq_ratio_1 = 1.1
C5_Witness ==
    /\ pc = "done"
    /\ \E r \in Range(df_combo) :
          /\ r.eq_ratio_1 = <<[n |-> 4, d |-> 5]>>
          /\ NotNull(r.assets) /\ r.eq_ratio_2 = <<[n |-> 16, d |-> 25]>>
    /\ \E r \in Range(df_combo) :
          /\ r.eq_ratio_1 = <<[n |-> 11, d |-> 10]>>
          /\ NotNull(r.assets) /\ r.eq_ratio_2 = <<[n |-> 22, d |-> 25]>>

\* C10: a joined record with missing assets gets tna_ratio = 1 and
\* eq_ratio_2 = 1, and is in the final table if and only if crsp_tna > 1.
C10_MissingAssets ==
    /\ Past("filter_b") =>
          \A r \in Range(df_combo) : IsNull(r.assets) => r.tna_ratio = <<One>>
    /\ Past("eq_ratios") =>
          \A r \in Range(df_combo) : IsNull(r.assets) => r.eq_ratio_2 = <<One>>
    /\ pc = "done" =>
          \A c \in Range(df_crsp_clean), e \in Range(df_eq) :
              (c.wficn = e.wficn /\ c.year = e.year /\ IsNull(e.assets)) =>
                  ((\E r \in Range(df_combo) : r.wficn = c.wficn /\ r.year = c.year)
                      <=> c.crsp_tna > 1)

\* a final record with missing assets whose eq_ratio_1 is out of the range,
\* beside a joined record with missing assets and crsp_tna = 1 that is dropped
C10_Witness ==
    /\ pc = "done"
    /\ \E r \in Range(df_combo) :
          IsNull(r.assets) /\ r.eq_ratio_1 = <<[n |-> 11, d |-> 10]>>
    /\ \E c \in Range(df_crsp_clean), e \in Range(df_eq) :
          /\ c.wficn = e.wficn /\ c.year = e.year /\ IsNull(e.assets) /\ c.crsp_tna = 1
          /\ \A r \in Range(df_combo) : r.wficn # c.wficn

-----------------------------------------------------------------------------
(* C9: the order of the filters *)

Orders ==
    {<<"a", "b", "c">>, <<"a", "c", "b">>, <<"b", "a", "c">>,
     <<"b", "c", "a">>, <<"c", "a", "b">>, <<"c", "b", "a">>}

Step(x, combo) ==
    IF x = "a" THEN StepA(combo) ELSE IF x = "b" THEN StepB(combo) ELSE StepC(combo)

\* the three filters applied in the order o
ApplyOrder(o, combo) == Step(o[3], Step(o[2], Step(o[1], combo)))

Keys(combo) == {<<r.wficn, r.year>> : r \in Range(combo)}

\* the joined tables of the inputs whose values the filters compare
C9_JoinedTables == {Joined(f.crsp, f.mflink1, f.s12, f.mflink2) : f \in FilterInputs}

\* C9 as stated: there is a joined table for which an order of the filters
\* other than a, b, c retains a different final set; and in the order a, b,
\* c each filter retains a subset of the set it is applied to.
C9_OrderSensitive ==
    /\ \E t \in C9_JoinedTables :
          \E o \in Orders :
              Range(ApplyOrder(o, t)) # Range(ApplyOrder(<<"a", "b", "c">>, t))
    /\ Past("filter_a") => Keys(df_combo) \subseteq Keys(Combine(df_crsp_clean, df_eq))

\* a filter cell retains a subset of the records it is applied to
C9_Narrows ==
    pc \in {"filter_a", "filter_b", "filter_c"} =>
        Keys(df_combo') \subseteq Keys(df_combo)

\* C9 as amended: the filters are not order-sensitive: applied to the joined
\* table in any order they retain the final set of the order a, b, c; and in
\* the order a, b, c each filter retains a subset of the set it is applied to.
C9_OrderInsensitive ==
    /\ [](pc = "done" =>
            \A o \in Orders :
                Range(ApplyOrder(o, Combine(df_crsp_clean, df_eq))) = Range(df_combo))
    /\ [][C9_Narrows]_vars

\* a joined table of two records: both pass filter a, filter b drops one
\* that filter c would have kept, and the other is in the final table
C9_Witness ==
    /\ pc = "done"
    /\ LET t == Combine(df_crsp_clean, df_eq)
       IN  /\ Len(t) = 2
           /\ Len(StepA(t)) = 2
           /\ Len(StepC(t)) = 2
           /\ Len(StepB(t)) = 1
           /\ Len(df_combo) = 1

-----------------------------------------------------------------------------
(* C6: inner-join semantics *)

\* the rows of the CRSP file whose share class has a row in the static link table
C6_MatchedCrsp ==
    SelectSeq(file_crsp,
        LAMBDA r : \E l \in Range(file_mflink1) : l.crsp_fundno = r.crsp_fundno)

\* the rows of the holdings file whose report id has a row in the time-varying
\* link table
C6_MatchedS12 ==
    SelectSeq(file_s12, LAMBDA r : \E l \in Range(file_mflink2) : l.fundno = r.fundno)

\* C6: the rows with no row in their link table contribute nothing: the CRSP
\* per-fund-year table, the aggregated holdings table, the joined table and
\* the final table are those of the files without these rows; and every
\* record of the final table has a wficn that both link tables give and that
\* both cleaned inputs hold for that year.
C6_InnerJoin ==
    /\ pc = "merge_mflink2" => df_crsp_clean = CrspClean(C6_MatchedCrsp, file_mflink1)
    /\ pc = "df_combo" => df_eq = EqTable(C6_MatchedS12, file_mflink2)
    /\ pc = "filter_a" =>
          df_combo = Joined(C6_MatchedCrsp, file_mflink1, C6_MatchedS12, file_mflink2)
    /\ pc = "done" =>
          /\ df_combo =
                Final(Joined(C6_MatchedCrsp, file_mflink1, C6_MatchedS12, file_mflink2))
          /\ \A r \in Range(df_combo) :
                /\ \E l \in Range(file_mflink1) : l.wficn = <<r.wficn>>
                /\ \E l \in Range(file_mflink2) : l.wficn = <<r.wficn>>
                /\ \E c \in Range(df_crsp_clean) : c.wficn = r.wficn /\ c.year = r.year
                /\ \E e \in Range(df_eq) : e.wficn = r.wficn /\ e.year = r.year

\* a run with a final record, a share class with a December TNA and no row in
\* the static link table, and a holdings report with no row in the other
C6_Witness ==
    /\ pc = "done"
    /\ df_combo # <<>>
    /\ \E r \in Range(file_crsp) :
          /\ MonthOf(r.caldt) = 12 /\ NotNull(r.mtna)
          /\ \A l \in Range(file_mflink1) : l.crsp_fundno # r.crsp_fundno
    /\ \E r \in Range(file_s12) : \A l \in Range(file_mflink2) : l.fundno # r.fundno

====
